---- MODULE Spec2Model ----
(***************************************************************************)
(* Calendar-puzzle exact-cover solver (apuzzle_solver.py).                 *)
(*                                                                         *)
(* The model follows the source section by section: the board tables, the  *)
(* piece orientations, generate_placements, and solve_exact_cover with its *)
(* closures choose() and search().  The recursion of search() is unfolded  *)
(* into an explicit call stack, one frame per active invocation.           *)
(*                                                                         *)
(* Rows, columns and board indices are 0-based as in the source; TLA+      *)
(* sequences are 1-based, so element i of a Python list is S[i + 1].       *)
(***************************************************************************)
EXTENDS Integers, Sequences, FiniteSets, TLC

\* ------------------------------ 1. BOARD ------------------------------

ROW_WIDTHS == <<6, 6, 7, 7, 7, 7, 3>>

NumRows == Len(ROW_WIDTHS)

\* Width of board row r (0-based).
Width(r) == ROW_WIDTHS[r + 1]

\* range(n) as an ascending sequence 0, 1, ..., n-1 (empty when n <= 0).
Range(n) == [k \in 1..n |-> k - 1]

RECURSIVE Flatten(_)
\* Concatenation of a sequence of sequences, in order.
Flatten(ss) == IF ss = <<>> THEN <<>> ELSE Head(ss) \o Flatten(Tail(ss))

\* The cells appended by the module-level loop, row by row, column by column.
BOARD_CELLS == Flatten([k \in 1..NumRows |-> [j \in 1..ROW_WIDTHS[k] |-> <<k - 1, j - 1>>]])

NumCells == Len(BOARD_CELLS)

Cells == {BOARD_CELLS[k] : k \in 1..NumCells}

\* CELL_TO_COL[(r, c)] = len(BOARD_CELLS) at the moment the cell is appended.
CELL_TO_COL == [xy \in Cells |-> (CHOOSE k \in 1..NumCells : BOARD_CELLS[k] = xy) - 1]

\* ------------------------------ 2. PIECES -----------------------------

PIECES ==
  [A |-> <<<<1,0>>, <<1,0>>, <<1,0>>, <<1,1>>>>,
   B |-> <<<<1,0>>, <<1,0>>, <<1,1>>, <<1,0>>>>,
   C |-> <<<<1,0>>, <<1,0>>, <<1,1>>, <<0,1>>>>,
   D |-> <<<<1,1>>, <<1,0>>, <<1,1>>>>,
   E |-> <<<<1,1>>, <<1,1>>, <<1,1>>>>,
   F |-> <<<<1,0>>, <<1,1>>, <<1,1>>>>,
   G |-> <<<<1,1,0>>, <<0,1,0>>, <<0,1,1>>>>,
   H |-> <<<<1,0,0>>, <<1,0,0>>, <<1,1,1>>>>]

\* Insertion order of the PIECES dict, which is also sorted(PIECES).
PieceNames == <<"A", "B", "C", "D", "E", "F", "G", "H">>

SeqMax(s) == CHOOSE m \in {s[k] : k \in 1..Len(s)} : \A k \in 1..Len(s) : s[k] <= m
SeqMin(s) == CHOOSE m \in {s[k] : k \in 1..Len(s)} : \A k \in 1..Len(s) : m <= s[k]
SetMax(S) == CHOOSE m \in S : \A x \in S : x <= m

Rs(cs) == [k \in 1..Len(cs) |-> cs[k][1]]
Cs(cs) == [k \in 1..Len(cs) |-> cs[k][2]]

grid_to_coords(g) ==
  Flatten([r \in 1..Len(g) |->
             SelectSeq([c \in 1..Len(g[r]) |-> <<r - 1, c - 1, g[r][c]>>],
                       LAMBDA t : t[3] # 0)])

\* grid_to_coords keeps (r, c) only; the filter above carries the cell value.
Coords(g) == [k \in 1..Len(grid_to_coords(g)) |->
                <<grid_to_coords(g)[k][1], grid_to_coords(g)[k][2]>>]

rotate(cs) ==
  LET h == SeqMax(Rs(cs)) + 1
  IN  [k \in 1..Len(cs) |-> <<cs[k][2], h - 1 - cs[k][1]>>]

flip(cs) ==
  LET w == SeqMax(Cs(cs)) + 1
  IN  [k \in 1..Len(cs) |-> <<cs[k][1], w - 1 - cs[k][2]>>]

\* Tuple order of Python on (r, c) pairs.
PairLess(a, b) == a[1] < b[1] \/ (a[1] = b[1] /\ a[2] < b[2])

RECURSIVE Insert(_, _)
Insert(x, s) ==
  IF s = <<>> THEN <<x>>
  ELSE IF PairLess(Head(s), x) THEN <<Head(s)>> \o Insert(x, Tail(s))
  ELSE <<x>> \o s

RECURSIVE SortPairs(_)
\* sorted(...) of a sequence of pairs.
SortPairs(s) == IF s = <<>> THEN <<>> ELSE Insert(Head(s), SortPairs(Tail(s)))

normalize(cs) ==
  LET mr == SeqMin(Rs(cs))
      mc == SeqMin(Cs(cs))
  IN  SortPairs([k \in 1..Len(cs) |-> <<cs[k][1] - mr, cs[k][2] - mc>>])

RECURSIVE RotateTimes(_, _)
RotateTimes(cs, n) == IF n = 0 THEN cs ELSE RotateTimes(rotate(cs), n - 1)

\* The eight (flipped, rot) combinations in loop order.
FlipRot == <<<<FALSE, 0>>, <<FALSE, 90>>, <<FALSE, 180>>, <<FALSE, 270>>,
             <<TRUE, 0>>, <<TRUE, 90>>, <<TRUE, 180>>, <<TRUE, 270>>>>

RECURSIVE TransformsFrom(_, _, _, _)
\* The two nested loops of all_transforms from combination k on, with the
\* accumulated `seen` set and `out` list.
TransformsFrom(base, k, seen, out) ==
  IF k > Len(FlipRot) THEN out
  ELSE LET flipped == FlipRot[k][1]
           rot     == FlipRot[k][2]
           cs0     == IF flipped THEN flip(base) ELSE base
           ncs     == normalize(RotateTimes(cs0, rot \div 90))
       IN  IF ncs \in seen
           THEN TransformsFrom(base, k + 1, seen, out)
           ELSE TransformsFrom(base, k + 1, seen \cup {ncs},
                               Append(out, [coords |-> ncs, rot |-> rot, fl |-> flipped]))

all_transforms(g) == TransformsFrom(Coords(g), 1, {}, <<>>)

\* all_transforms does not depend on the excluded set.
Transforms == [n \in {PieceNames[k] : k \in 1..Len(PieceNames)} |-> all_transforms(PIECES[n])]

\* --------------------------- placements -------------------------------

RECURSIVE SortInts(_)
\* sorted(S) for a set of integers.
SortInts(S) ==
  IF S = {} THEN <<>>
  ELSE LET m == CHOOSE x \in S : \A y \in S : x <= y
       IN  <<m>> \o SortInts(S \ {m})

SeqSet(s) == {s[k] : k \in 1..Len(s)}

\* Placement.__init__: squares are stored as a sorted tuple.
Placement(piece, squares, top_left, rotation, flipped) ==
  [piece |-> piece, squares |-> SortInts(SeqSet(squares)), top_left |-> top_left,
   rotation |-> rotation, flipped |-> flipped]

\* The rejection test without its excluded-cell half.
CellOk_NoExcluded(r, c, excl) == ~(c >= Width(r))

\* Negation of the rejection test `c >= ROW_WIDTHS[r] or (r, c) in excluded`.
CellOk(r, c, excl) == ~(c >= Width(r) \/ <<r, c>> \in excl)

\* Body of the two anchor loops for one anchor: the cell loop with its
\* break, then the append when ok.  Yields zero or one placement.
PlaceAt(name, t, tr, tc, excl) ==
  LET coords == t.coords
      ok     == \A k \in 1..Len(coords) : CellOk(tr + coords[k][1], tc + coords[k][2], excl)
      cell_idxs == [k \in 1..Len(coords) |-> CELL_TO_COL[<<tr + coords[k][1], tc + coords[k][2]>>]]
  IN  IF ok THEN <<Placement(name, cell_idxs, <<tr, tc>>, t.rot, t.fl)>> ELSE <<>>

\* The anchor columns tried in anchor row tr: range(ROW_WIDTHS[tr] - max_c).
AnchorCols(tr, max_c) == Range(Width(tr) - max_c)

\* The anchor rows tried: range(rows - max_r).
AnchorRows(max_r) == Range(NumRows - max_r)

PlaceTransform(name, t, excl) ==
  LET max_r == SeqMax(Rs(t.coords))
      max_c == SeqMax(Cs(t.coords))
      trs   == AnchorRows(max_r)
  IN  Flatten([a \in 1..Len(trs) |->
        LET tcs == AnchorCols(trs[a], max_c)
        IN  Flatten([b \in 1..Len(tcs) |-> PlaceAt(name, t, trs[a], tcs[b], excl)])])

\* One iteration of the outer loop `for name, grid in PIECES.items()`.
PlacePiece(name, excl) ==
  LET ts == Transforms[name]
  IN  Flatten([k \in 1..Len(ts) |-> PlaceTransform(name, ts[k], excl)])

generate_placements(excl) ==
  Flatten([n \in 1..Len(PieceNames) |-> PlacePiece(PieceNames[n], excl)])

\* ---------------------------- 3. EXACT-COVER ---------------------------

\* Number of excluded sets of ExcludedInputs the solver is run on.
NumInputs == 6

\* Excluded sets given to the solver, as pairs of board cells: two that
\* isolate a corner cell, one without solution, and sets with a solution.
ExcludedInputs ==
  << {<<0, 1>>, <<1, 0>>},
     {<<0, 4>>, <<1, 5>>},
     {<<5, 0>>, <<5, 2>>},
     {<<0, 4>>, <<5, 2>>},
     {<<1, 4>>, <<4, 2>>},
     {<<2, 5>>, <<3, 5>>},
     {<<3, 5>>, <<5, 5>>},
     {<<2, 1>>, <<2, 5>>} >>

\* The placement generator alone is also run on every pair of the last
\* GenTail board cells.
GenTail == 5

TailCells == {BOARD_CELLS[a] : a \in (NumCells - GenTail + 1)..NumCells}

GenInputs ==
  {ExcludedInputs[k] : k \in 1..NumInputs} \cup
  {e \in SUBSET TailCells : Cardinality(e) = 2}

VARIABLES
  excluded,      \* argument of generate_placements and solve_exact_cover
  gen_i,         \* number of pieces generate_placements has gone through
  placements,    \* the list `res`, returned by generate_placements
  board_cols, piece_cols, universe, col_to_rows,   \* locals of solve_exact_cover
  sol, used, tries,                                \* search state
  stack,         \* active invocations of search(), innermost last
  pc,            \* position of the program
  result         \* value returned by solve_exact_cover

vars == <<excluded, gen_i, placements, board_cols, piece_cols, universe, col_to_rows,
          sol, used, tries, stack, pc, result>>

solveVars == <<board_cols, piece_cols, universe, col_to_rows>>

\* board_cols = {CELL_TO_COL[xy] for xy in BOARD_CELLS if xy not in excluded}
BoardCols(excl) == {CELL_TO_COL[xy] : xy \in {x \in Cells : x \notin excl}}

\* Piece columns numbered from len(board_cols) instead of max(board_cols) + 1.
PieceColOf_FromLen(bc, i) == Cardinality(bc) + i

\* max(board_cols) + 1 + i
PieceColOf(bc, i) == SetMax(bc) + 1 + i

\* piece_cols = {p: max(board_cols) + 1 + i for i, p in enumerate(sorted(PIECES))}
PieceCols(bc) ==
  [p \in SeqSet(PieceNames) |->
     PieceColOf(bc, (CHOOSE k \in 1..Len(PieceNames) : PieceNames[k] = p) - 1)]

PieceColSet(pcs) == {pcs[p] : p \in DOMAIN pcs}

\* The column set of a placement: (set(pl.squares) & board_cols) | {piece_cols[pl.piece]}
RowCols(pl, bc, pcs) == (SeqSet(pl.squares) \cap bc) \cup {pcs[pl.piece]}

\* col_to_rows: for each column the row indices (0-based) touching it, ascending.
ColToRows(pls, bc, pcs, uni) ==
  LET rc == [k \in 1..Len(pls) |-> RowCols(pls[k], bc, pcs)]
  IN  [c \in uni |-> SelectSeq(Range(Len(pls)), LAMBDA idx : c \in rc[idx + 1])]

NoResult == [none |-> TRUE, solution |-> <<>>, tries |-> 0]

InitWith(inputs) ==
  /\ excluded \in inputs
  /\ gen_i = 0
  /\ placements = <<>>
  /\ board_cols = {}
  /\ piece_cols = <<>>
  /\ universe = {}
  /\ col_to_rows = <<>>
  /\ sol = <<>>
  /\ used = {}
  /\ tries = 0
  /\ stack = <<>>
  /\ pc = "generate"
  /\ result = NoResult

Init == InitWith({ExcludedInputs[k] : k \in 1..NumInputs})

InitGen == InitWith(GenInputs)

\* generate_placements: one iteration of the loop over PIECES.items(); after
\* the last piece the list is returned to main, which calls solve_exact_cover.
GeneratePiece ==
  /\ pc = "generate"
  /\ gen_i < Len(PieceNames)
  /\ placements' = placements \o PlacePiece(PieceNames[gen_i + 1], excluded)
  /\ gen_i' = gen_i + 1
  /\ pc' = IF gen_i + 1 = Len(PieceNames) THEN "setup" ELSE "generate"
  /\ UNCHANGED <<excluded, solveVars, sol, used, tries, stack, result>>

\* solve_exact_cover up to the first call of search()
Setup ==
  /\ pc = "setup"
  /\ LET bc  == BoardCols(excluded)
         pcs == PieceCols(bc)
         uni == bc \cup PieceColSet(pcs)
     IN  /\ board_cols' = bc
         /\ piece_cols' = pcs
         /\ universe' = uni
         /\ col_to_rows' = ColToRows(placements, bc, pcs, uni)
  /\ sol' = <<>>
  /\ used' = {}
  /\ tries' = 0
  /\ pc' = "call"
  /\ UNCHANGED <<excluded, gen_i, placements, stack, result>>

\* ------------------------------ search --------------------------------

\* placements[row] for a 0-based row index.
Pl(row) == placements[row + 1]

\* row_cols of search(), for a row index.
row_cols_of(row) == RowCols(Pl(row), board_cols, piece_cols)

\* The key of choose(): the rows of column c whose squares do not meet `used`.
ChooseKey(c, u) ==
  Cardinality({k \in 1..Len(col_to_rows[c]) : SeqSet(Pl(col_to_rows[c][k]).squares) \cap u = {}})

\* The order of max() in place of min().
KeyLeq_Max(a, b) == a >= b

\* Order used by min().
KeyLeq(a, b) == a <= b

\* The columns min() may return.  min() scans the set `universe - used` in
\* its iteration order and keeps the first least key; that order is not
\* fixed by the language, so any column with the least key may be returned.
Choose(u) ==
  LET key == [c \in universe \ u |-> ChooseKey(c, u)]
  IN  {c \in universe \ u : \A d \in universe \ u : KeyLeq(key[c], key[d])}

\* The overlap test on the board columns only.
Conflicts_BoardOnly(rc, u) == (rc \cap board_cols) \cap u # {}

\* `if row_cols & used`
Conflicts(rc, u) == rc \cap u # {}

\* A loop that gives up after its first row.
LoopDone_FirstOnly(idx, n) == idx >= n \/ idx >= 1

\* The for loop over col_to_rows[col] has no row left after idx rows of n.
LoopDone(idx, n) == idx >= n

\* A missing sol.pop().
PopSol_Keep(s) == s

\* sol.pop()
PopSol(s) == SubSeq(s, 1, Len(s) - 1)

\* An undo that leaves the piece column behind.
UndoUsed_SquaresOnly(u, row) == u \ SeqSet(Pl(row).squares)

\* used.difference_update(row_cols)
UndoUsed(u, row) == u \ row_cols_of(row)

\* A frame of search(): the chosen column, the number of rows of
\* col_to_rows[col] the for loop has taken, and, recorded for the
\* frame-effect properties, sol and used at the entry of the call (entry*)
\* and just before the current row was pushed (pre*).
Frame(c) == [col |-> c, idx |-> 0, entrySol |-> sol, entryUsed |-> used,
             preSol |-> sol, preUsed |-> used]

Top == stack[Len(stack)]

TopRows == col_to_rows[Top.col]

\* The row of the current iteration of the innermost loop.
TopRow == TopRows[Top.idx]

SetTop(f) == [stack EXCEPT ![Len(stack)] = f]

\* search(): `if used == universe: return True`
SearchTerminal ==
  /\ pc = "call"
  /\ used = universe
  /\ pc' = "retT"
  /\ UNCHANGED <<excluded, gen_i, placements, solveVars, sol, used, tries, stack, result>>

\* search(): `col = choose()` and entry into the for loop
SearchChoose ==
  /\ pc = "call"
  /\ used # universe
  /\ \E c \in Choose(used) : stack' = Append(stack, Frame(c))
  /\ pc' = "loop"
  /\ UNCHANGED <<excluded, gen_i, placements, solveVars, sol, used, tries, result>>

\* One iteration that ends in `continue`
LoopSkip ==
  /\ pc = "loop"
  /\ ~LoopDone(Top.idx, Len(TopRows))
  /\ LET row == TopRows[Top.idx + 1]
     IN  /\ Conflicts(row_cols_of(row), used)
         /\ tries' = tries + 1
         /\ stack' = SetTop([Top EXCEPT !.idx = @ + 1])
  /\ UNCHANGED <<excluded, gen_i, placements, solveVars, sol, used, pc, result>>

\* One iteration that pushes the row and calls search()
LoopPush ==
  /\ pc = "loop"
  /\ ~LoopDone(Top.idx, Len(TopRows))
  /\ LET row == TopRows[Top.idx + 1]
     IN  /\ ~Conflicts(row_cols_of(row), used)
         /\ tries' = tries + 1
         /\ sol' = Append(sol, row)
         /\ used' = used \cup row_cols_of(row)
         /\ stack' = SetTop([Top EXCEPT !.idx = @ + 1, !.preSol = sol, !.preUsed = used])
  /\ pc' = "call"
  /\ UNCHANGED <<excluded, gen_i, placements, solveVars, result>>

\* The for loop is exhausted: `return False`
LoopExhausted ==
  /\ pc = "loop"
  /\ LoopDone(Top.idx, Len(TopRows))
  /\ stack' = SubSeq(stack, 1, Len(stack) - 1)
  /\ pc' = "retF"
  /\ UNCHANGED <<excluded, gen_i, placements, solveVars, sol, used, tries, result>>

\* The inner search() returned False: pop, difference_update, next iteration
Backtrack ==
  /\ pc = "retF"
  /\ stack # <<>>
  /\ sol' = PopSol(sol)
  /\ used' = UndoUsed(used, TopRow)
  /\ pc' = "loop"
  /\ UNCHANGED <<excluded, gen_i, placements, solveVars, tries, stack, result>>

\* The inner search() returned True: `return True`
ReturnTrue ==
  /\ pc = "retT"
  /\ stack # <<>>
  /\ stack' = SubSeq(stack, 1, Len(stack) - 1)
  /\ UNCHANGED <<excluded, gen_i, placements, solveVars, sol, used, tries, pc, result>>

\* `found = search()` has returned; solve_exact_cover returns
Return ==
  /\ pc \in {"retT", "retF"}
  /\ stack = <<>>
  /\ result' = IF pc = "retT"
               THEN [none |-> FALSE, solution |-> [k \in 1..Len(sol) |-> Pl(sol[k])],
                     tries |-> tries]
               ELSE [none |-> TRUE, solution |-> <<>>, tries |-> tries]
  /\ pc' = "done"
  /\ UNCHANGED <<excluded, gen_i, placements, solveVars, sol, used, tries, stack>>

NextGen == GeneratePiece \/ Setup

Next ==
  \/ GeneratePiece
  \/ Setup
  \/ SearchTerminal
  \/ SearchChoose
  \/ LoopSkip
  \/ LoopPush
  \/ LoopExhausted
  \/ Backtrack
  \/ ReturnTrue
  \/ Return

\* The whole program: generation, index construction and search.
Spec == Init /\ [][Next]_vars

\* The steps of search() and the return of solve_exact_cover.
SearchNext ==
  \/ SearchTerminal
  \/ SearchChoose
  \/ LoopSkip
  \/ LoopPush
  \/ LoopExhausted
  \/ Backtrack
  \/ ReturnTrue
  \/ Return

\* search() is a sequential call: once started it keeps taking steps until
\* it returns.
FairSpec == Spec /\ WF_vars(SearchNext)

\* generate_placements and the index construction only.
SpecGen == InitGen /\ [][NextGen]_vars

\* ------------------------- placement generator -----------------------

\* The board cell of a board index (BOARD_CELLS[idx]).
CellOf(idx) == BOARD_CELLS[idx + 1]

\* The orientation a placement records: the transform of its piece with the
\* placement's rotation and flip.
OrientationOf(pl) ==
  LET ts == Transforms[pl.piece]
  IN  ts[CHOOSE k \in 1..Len(ts) : ts[k].rot = pl.rotation /\ ts[k].fl = pl.flipped].coords

\* The cells of an orientation translated by an anchor.
Translated(coords, tr, tc) == {<<tr + coords[k][1], tc + coords[k][2]>> : k \in 1..Len(coords)}

\* The number of cells of a piece.
CellCount(name) == IF name = "E" THEN 6 ELSE 5

PlacementLegal(pl) ==
  /\ \A k \in 1..Len(pl.squares) :
       /\ pl.squares[k] \in 0..(NumCells - 1)
       /\ CellOf(pl.squares[k])[2] < Width(CellOf(pl.squares[k])[1])
       /\ CellOf(pl.squares[k]) \notin excluded
  /\ {CellOf(pl.squares[k]) : k \in 1..Len(pl.squares)}
       = Translated(OrientationOf(pl), pl.top_left[1], pl.top_left[2])
  /\ Cardinality(SeqSet(pl.squares)) = CellCount(pl.piece)
  /\ Len(pl.squares) = CellCount(pl.piece)

\* C3: every placement generate_placements has emitted lies on valid,
\* non-excluded cells, is exactly its orientation translated by its recorded
\* anchor, and has as many distinct squares as its piece has cells (6 for E,
\* 5 for the others).
C3_PlacementsLegal == \A k \in 1..Len(placements) : PlacementLegal(placements[k])

\* generate_placements has returned a full list, with placements of the
\* 6-cell piece and of flipped orientations.
C3_Witness ==
  /\ pc = "setup"
  /\ Len(placements) > 700
  /\ \E k \in 1..Len(placements) : placements[k].piece = "E"
  /\ \E k \in 1..Len(placements) : placements[k].piece = "A" /\ placements[k].flipped

\* An anchor (tr, tc) at which every translated cell is on the board and
\* none is excluded.
LegalAnchor(coords, tr, tc) ==
  \A k \in 1..Len(coords) :
    /\ tr + coords[k][1] < NumRows
    /\ tc + coords[k][2] < Width(tr + coords[k][1])
    /\ <<tr + coords[k][1], tc + coords[k][2]>> \notin excluded

MaxWidth == SeqMax(ROW_WIDTHS)

\* C2: once generate_placements has returned, the list holds a placement for
\* every piece, orientation and anchor whose translated cells are all on the
\* board and not excluded.
C2_EveryLegalPlacement ==
  pc # "generate" =>
    \A n \in 1..Len(PieceNames) :
      \A t \in 1..Len(Transforms[PieceNames[n]]) :
        \A tr \in 0..(NumRows - 1), tc \in 0..(MaxWidth - 1) :
          LET coords == Transforms[PieceNames[n]][t].coords
          IN  LegalAnchor(coords, tr, tc) =>
                \E k \in 1..Len(placements) :
                  /\ placements[k].piece = PieceNames[n]
                  /\ {CellOf(placements[k].squares[j]) : j \in 1..Len(placements[k].squares)}
                       = Translated(coords, tr, tc)

\* C10: after the index construction the 8 piece columns are pairwise
\* distinct, differ from every non-excluded board column and from every
\* index in a generated placement's squares, and the universe has
\* N - 2 + 8 columns.
C10_PieceColumnsApart ==
  pc = "call" =>
    /\ Cardinality(PieceColSet(piece_cols)) = Len(PieceNames)
    /\ PieceColSet(piece_cols) \cap {CELL_TO_COL[xy] : xy \in Cells \ excluded} = {}
    /\ \A k \in 1..Len(placements) : SeqSet(placements[k].squares) \cap PieceColSet(piece_cols) = {}
    /\ Cardinality(universe) = NumCells - 2 + 8

\* The index was built for an excluded set holding the highest-index cell
\* (6,2), so that the first piece column is that cell's index.
C10_Witness ==
  /\ pc = "call"
  /\ <<6, 2>> \in excluded
  /\ piece_cols["A"] = CELL_TO_COL[<<6, 2>>]

\* ------------------------------- solver -------------------------------

\* The board indices of the non-excluded cells.
FreeIndices == {CELL_TO_COL[xy] : xy \in Cells \ excluded}

\* C1: a returned solution consists of placements whose square sets are
\* pairwise disjoint and together are exactly the non-excluded board indices,
\* and every piece tag A-H is the tag of exactly one of them.
C1_SolutionValid ==
  (pc = "done" /\ ~result.none) =>
    LET S == result.solution
    IN  /\ \A a, b \in 1..Len(S) : a # b => SeqSet(S[a].squares) \cap SeqSet(S[b].squares) = {}
        /\ UNION {SeqSet(S[a].squares) : a \in 1..Len(S)} = FreeIndices
        /\ \A n \in 1..Len(PieceNames) :
             Cardinality({a \in 1..Len(S) : S[a].piece = PieceNames[n]}) = 1

\* A solution was returned after at least one branch had been undone.
C1_Witness == pc = "done" /\ ~result.none /\ result.tries > Len(result.solution)

\* The columns a placement must cover in an exact cover, numbered apart from
\* the solver's own numbering: its board indices, and -n for the n-th piece.
CoverCols(pl) ==
  SeqSet(pl.squares) \cup {0 - (CHOOSE n \in 1..Len(PieceNames) : PieceNames[n] = pl.piece)}

CoverTarget == FreeIndices \cup {0 - n : n \in 1..Len(PieceNames)}

RECURSIVE ExactCoverFrom(_, _, _)
\* Some set of rows, pairwise disjoint and disjoint from u, covers target \ u.
\* Every such set holds exactly one row through any given uncovered column c,
\* so trying the rows through one uncovered column loses no cover.
ExactCoverFrom(rcs, target, u) ==
  IF u = target THEN TRUE
  ELSE LET free == target \ u
           fit  == {k \in 1..Len(rcs) : rcs[k] \cap u = {} /\ rcs[k] \subseteq target}
           cnt  == [c \in free |-> Cardinality({k \in fit : c \in rcs[k]})]
           c    == CHOOSE x \in free : \A d \in free : cnt[x] <= cnt[d]
       IN  \E k \in fit : c \in rcs[k] /\ ExactCoverFrom(rcs, target, u \cup rcs[k])

\* Some subset of the given placements covers every column exactly once.
ExactCoverExists ==
  ExactCoverFrom([k \in 1..Len(placements) |-> CoverCols(placements[k])], CoverTarget, {})

\* C4: solve_exact_cover returns no-solution only if no subset of the
\* placements it was given covers every board column and every piece column
\* exactly once.
C4_SearchComplete == (pc = "done" /\ result.none) => ~ExactCoverExists

\* No-solution was returned after rows had been tried and undone.
C4_Witness == pc = "done" /\ result.none /\ result.tries > 0

\* Some non-excluded cell is touched by no placement.
IsolatedCell ==
  /\ pc \notin {"generate", "setup"}
  /\ \E c \in board_cols : Len(col_to_rows[c]) = 0

\* C5 as stated: with an isolated free cell the solver returns no-solution
\* with a tries count strictly greater than 0.
C5_IsolatedTriesPositive ==
  (IsolatedCell /\ pc = "done") => (result.none /\ result.tries > 0)

\* C5 amended: with an isolated free cell no candidate row is ever examined,
\* and the solver returns no-solution with a tries count of 0.
C5_IsolatedTriesZero ==
  IsolatedCell => (tries = 0 /\ (pc = "done" => result.none /\ result.tries = 0))

\* The solver has returned for excluded = {(0,1), (1,0)}, which isolates (0,0).
C5_Witness ==
  /\ pc = "done"
  /\ excluded = {<<0, 1>>, <<1, 0>>}
  /\ IsolatedCell
  /\ col_to_rows[CELL_TO_COL[<<0, 0>>]] = <<>>

\* C6: when a search() called after pushing a row returns False, the pop and
\* the column removal restore sol and used to their values just before the
\* push; and a search() that returns False leaves sol and used as they were
\* at its entry.
C6_BacktrackIntegrity ==
  [][ /\ (pc = "retF" /\ stack # <<>>) => (sol' = Top.preSol /\ used' = Top.preUsed)
      /\ (pc = "loop" /\ pc' = "retF") => (sol = Top.entrySol /\ used = Top.entryUsed)
    ]_vars

\* A nested call has just undone a row it had pushed.
C6_Witness ==
  /\ pc = "loop"
  /\ Len(stack) >= 2
  /\ Top.idx >= 1
  /\ ~Conflicts(row_cols_of(TopRow), used)

\* A branch is being left: the search() called for the pushed row has returned.
BranchExit == pc \in {"retF", "retT"} /\ stack # <<>>

\* C7 as stated: on every exit from a branch, the success exit included, the
\* pushed row is popped and its columns are removed.
C7_UndoOnEveryExit ==
  [][ BranchExit =>
        /\ sol' = SubSeq(sol, 1, Len(sol) - 1)
        /\ used' = used \ row_cols_of(TopRow) ]_vars

\* C7 amended: the undo is executed on every exit on which the recursive call
\* reports failure; on the exit on which it reports success nothing is
\* undone, and the pushed row and its columns stay in sol and used.
C7_UndoOnFailureOnly ==
  [][ /\ (pc = "retF" /\ stack # <<>>) =>
           /\ sol' = SubSeq(sol, 1, Len(sol) - 1)
           /\ used' = used \ row_cols_of(TopRow)
      /\ (pc = "retT" /\ stack # <<>>) =>
           /\ sol' = sol
           /\ used' = used
           /\ sol[Len(stack)] = TopRow
           /\ row_cols_of(TopRow) \subseteq used'
    ]_vars

\* Success has propagated through some branches, whose rows are still in sol.
C7_Witness ==
  /\ pc = "retT"
  /\ stack # <<>>
  /\ Len(stack) < Len(sol)
  /\ used = universe

\* The rows of column c whose full column set is disjoint from u.
ViableCount(c, u) ==
  Cardinality({k \in 1..Len(col_to_rows[c]) : row_cols_of(col_to_rows[c][k]) \cap u = {}})

\* C8: the column choose() returns is uncovered, and no other uncovered column
\* has fewer viable rows, a row being viable iff its board columns and its
\* piece column are all unused.
C8_LeastViableChosen ==
  (pc = "loop" /\ Top.idx = 0) =>
    /\ Top.col \notin used
    /\ \A c \in universe \ used : ViableCount(Top.col, used) <= ViableCount(c, used)

\* The piece tags of the rows in sol.
SolTags == [k \in 1..Len(sol) |-> Pl(sol[k]).piece]

\* C9: every call of search() is followed by the return of the solver, and
\* at all times sol holds at most 8 rows, of pairwise distinct pieces, with
\* at most 8 invocations of search() inside their loop.
C9_TerminatesBounded ==
  /\ (pc = "call") ~> (pc = "done")
  /\ [](/\ Len(sol) <= Len(PieceNames)
        /\ Len(stack) <= Len(PieceNames)
        /\ \A a, b \in 1..Len(sol) : a # b => SolTags[a] # SolTags[b])

\* The recursion is 8 rows deep.
C9_Witness == Len(sol) = Len(PieceNames) /\ Len(stack) = Len(PieceNames) /\ pc = "call"

====
